---------------------------- MODULE Spec2Model ----------------------------
(***************************************************************************)
(* A model of the truck-yard logistics dashboard (src/App.tsx): the CSV    *)
(* decoder, the column resolver, the temporal and numeric normalizers, the *)
(* record builder, the aggregation memos and the fetch / countdown-timer   *)
(* state machine of the App component.                                     *)
(*                                                                         *)
(* Representation.                                                         *)
(*  - A JavaScript string is a sequence of characters, each character a    *)
(*    one-element TLA+ string (<<"S","a","n","d">>).  Characters outside   *)
(*    ASCII are written as their code point ("U+00A0").                    *)
(*  - A JavaScript number is an integer count of thousandths (Milli), so   *)
(*    that parseFloat("12.5") is 12500 and "1,200" is 1200000.  NaN only   *)
(*    occurs as the intermediate result of a failed parse.                 *)
(*  - A Date is the number of minutes of local wall-clock time since       *)
(*    1970-01-01 00:00 (the dashboard never reads seconds); the invalid    *)
(*    date / null is the value Null.  The factory zone (IST) has no        *)
(*    daylight saving, so local time is a linear count.                    *)
(***************************************************************************)
EXTENDS Integers, Sequences, FiniteSets, TLC

VARIABLES
    mounted,        \* the mount effects of App have run
    rawData,        \* useState<TruckData[]>            App.tsx:290
    dataVersion,    \* useState(0)                      App.tsx:291
    animationTick,  \* useState(0)                      App.tsx:292
    isSettingsOpen, \* useState(false)                  App.tsx:294
    isLoading,      \* useState(false)                  App.tsx:295
    isPaused,       \* useState(false)                  App.tsx:296
    monitorDate,    \* useState(getShiftDateString(..)) App.tsx:298
    settings,       \* useState<DashboardSettings>      App.tsx:301
    filters,        \* useState<FilterState>            App.tsx:322
    countdown,      \* DashboardTimer's useState(rate)  App.tsx:163
    inflight,       \* the calls of fetchCSV that are suspended at an await
    allRows,        \* the table decoded by the fetch that last stored records
    lastOutcome,    \* how the fetch that completed last ended
    date,           \* the Date last handed to getShiftDateString
    shiftDate,      \* the string that call returned
    aiCall          \* the call of analyzeLogisticsData  part_000:3

vars == <<mounted, rawData, dataVersion, animationTick, isSettingsOpen,
          isLoading, isPaused, monitorDate, settings, filters, countdown,
          inflight, allRows, lastOutcome, date, shiftDate, aiCall>>

-----------------------------------------------------------------------------
(* Bounds of the model *)

MaxInflight == 2
MaxVersion == 2
MaxTick == 2
MaxRate == 2
MaxRecords == 2
MaxYears == 1
MaxCsvCells == 4

-----------------------------------------------------------------------------
(* JavaScript strings *)

\* null, and the invalid Date; a valid Date is the one-element tuple <<t>>
Null == <<>>

Milli == 1000

NBSP == "U+00A0"
ZWSP == "U+200B"
ZWNJ == "U+200C"
ZWJ == "U+200D"
BOM == "U+FEFF"

Digits == <<"0", "1", "2", "3", "4", "5", "6", "7", "8", "9">>

UpperCase == <<"A", "B", "C", "D", "E", "F", "G", "H", "I", "J", "K", "L", "M",
               "N", "O", "P", "Q", "R", "S", "T", "U", "V", "W", "X", "Y", "Z">>

LowerCase == <<"a", "b", "c", "d", "e", "f", "g", "h", "i", "j", "k", "l", "m",
               "n", "o", "p", "q", "r", "s", "t", "u", "v", "w", "x", "y", "z">>

IsDigit(c) == \E i \in 1..10 : Digits[i] = c

DigitValue(c) == (CHOOSE i \in 1..10 : Digits[i] = c) - 1

\* White space as String.prototype.trim and the regular expression \s see it.
IsSpace(c) == c \in {" ", "\t", "\n", "\r", "\f", NBSP, BOM}

LowerChar(c) ==
    IF \E i \in 1..26 : UpperCase[i] = c
    THEN LowerCase[CHOOSE i \in 1..26 : UpperCase[i] = c]
    ELSE c

toLowerCase(s) == [i \in 1..Len(s) |-> LowerChar(s[i])]

RECURSIVE TrimStart(_)
TrimStart(s) ==
    IF s # <<>> /\ IsSpace(Head(s)) THEN TrimStart(Tail(s)) ELSE s

RECURSIVE TrimEnd(_)
TrimEnd(s) ==
    IF s # <<>> /\ IsSpace(s[Len(s)]) THEN TrimEnd(SubSeq(s, 1, Len(s) - 1)) ELSE s

trim(s) == TrimEnd(TrimStart(s))

\* String.prototype.includes
includes(s, k) ==
    \E i \in 1..(Len(s) - Len(k) + 1) : SubSeq(s, i, i + Len(k) - 1) = k

\* str.replace(/,/g, '') and the other global single-character removals
RemoveAll(s, cs) == SelectSeq(s, LAMBDA c : c \notin cs)

\* the value of a run of decimal digits
RECURSIVE DigitsValue(_)
DigitsValue(s) ==
    IF s = <<>> THEN 0
    ELSE 10 * DigitsValue(SubSeq(s, 1, Len(s) - 1)) + DigitValue(s[Len(s)])

AllDigits(s) == \A i \in 1..Len(s) : IsDigit(s[i])

\* the length of the run of digits that starts at position i of s
RECURSIVE DigitRun(_, _)
DigitRun(s, i) ==
    IF i <= Len(s) /\ IsDigit(s[i]) THEN 1 + DigitRun(s, i + 1) ELSE 0

Min2(a, b) == IF a <= b THEN a ELSE b

\* str.split(/\s+/) of a trimmed string: the maximal runs of non-space
RECURSIVE SplitSpaces(_, _, _)
SplitSpaces(s, i, cur) ==
    IF i > Len(s) THEN <<cur>>
    ELSE IF IsSpace(s[i])
         THEN IF i > 1 /\ IsSpace(s[i - 1])
              THEN SplitSpaces(s, i + 1, cur)
              ELSE <<cur>> \o SplitSpaces(s, i + 1, <<>>)
         ELSE SplitSpaces(s, i + 1, Append(cur, s[i]))

\* str.split(':')
RECURSIVE SplitOn(_, _, _, _)
SplitOn(s, sep, i, cur) ==
    IF i > Len(s) THEN <<cur>>
    ELSE IF s[i] = sep
         THEN <<cur>> \o SplitOn(s, sep, i + 1, <<>>)
         ELSE SplitOn(s, sep, i + 1, Append(cur, s[i]))

-----------------------------------------------------------------------------
(* CSV Decoder: robustParseCSV, App.tsx:63-88 *)

\* One pass of the body of the for loop, App.tsx:69-84, on the loop state
\* [i, result, row, col, inQuotes] (i is 0-based as in the source); the
\* result has i already advanced by the loop's i++.
ScanChar(text, st) ==
    LET char == text[st.i + 1]
        nextIs(c) == st.i + 1 < Len(text) /\ text[st.i + 2] = c
    IN  CASE st.inQuotes /\ char = "\"" /\ nextIs("\"") ->
                 [st EXCEPT !.col = Append(st.col, "\""), !.i = st.i + 2]
          [] st.inQuotes /\ char = "\"" /\ ~nextIs("\"") ->
                 [st EXCEPT !.inQuotes = FALSE, !.i = st.i + 1]
          [] st.inQuotes /\ char # "\"" ->
                 [st EXCEPT !.col = Append(st.col, char), !.i = st.i + 1]
          [] ~st.inQuotes /\ char = "\"" ->
                 [st EXCEPT !.inQuotes = TRUE, !.i = st.i + 1]
          [] ~st.inQuotes /\ char = "," ->
                 [st EXCEPT !.row = Append(st.row, st.col), !.col = <<>>, !.i = st.i + 1]
          [] ~st.inQuotes /\ char \in {"\n", "\r"} ->
                 [st EXCEPT !.result = Append(st.result, Append(st.row, st.col)),
                            !.row = <<>>, !.col = <<>>,
                            !.i = IF char = "\r" /\ nextIs("\n") THEN st.i + 2 ELSE st.i + 1]
          [] ~st.inQuotes /\ char \notin {"\"", ",", "\n", "\r"} ->
                 [st EXCEPT !.col = Append(st.col, char), !.i = st.i + 1]

\* one iteration of the for loop, if its condition i < text.length holds
ScanNext(text, st) == IF st.i < Len(text) THEN ScanChar(text, st) ELSE st

\* eight iterations (the loop is unrolled to keep the evaluation shallow)
ScanEight(text, st) ==
    ScanNext(text, ScanNext(text, ScanNext(text, ScanNext(text,
        ScanNext(text, ScanNext(text, ScanNext(text, ScanNext(text, st))))))))

\* the for loop, and after it the flush of line 86
RECURSIVE ParseFrom(_, _)
ParseFrom(text, st) ==
    IF st.i < Len(text) THEN ParseFrom(text, ScanEight(text, st))
    ELSE IF st.col # <<>> \/ Len(st.row) > 0
         THEN Append(st.result, Append(st.row, st.col))
         ELSE st.result

\* the decoder with empty lines skipped
robustParseCSV_SkipsEmptyLines(text) ==
    SelectSeq(ParseFrom(text, [i |-> 0, result |-> <<>>, row |-> <<>>, col |-> <<>>,
                               inQuotes |-> FALSE]),
              LAMBDA r : r # << <<>> >>)

robustParseCSV(text) ==
    ParseFrom(text, [i |-> 0, result |-> <<>>, row |-> <<>>, col |-> <<>>, inQuotes |-> FALSE])

-----------------------------------------------------------------------------
(* Column Resolver: findColIdx, App.tsx:90-92, and its keyword lists *)

\* headers.findIndex(...): the 0-based index of the first header that contains
\* one of the keywords, case-insensitively; -1 when there is none.
findColIdx(headers, keywords) ==
    LET hit(j) == \E k \in 1..Len(keywords) :
                      includes(toLowerCase(headers[j]), toLowerCase(keywords[k]))
    IN  IF \E j \in 1..Len(headers) : hit(j)
        THEN (CHOOSE j \in 1..Len(headers) : hit(j) /\ \A l \in 1..(j - 1) : ~hit(l)) - 1
        ELSE -1

KwTruck == << <<"U+8ECA", "U+865F">>, <<"U+8ECA", "U+724C">>, <<"T", "r", "u", "c", "k">> >>

KwMat == << <<"U+539F", "U+6750", "U+6599">>, <<"U+54C1", "U+540D">>,
            <<"M", "a", "t", "e", "r", "i", "a", "l">> >>

KwArrival == << <<"U+9032", "U+5834">>, <<"A", "r", "r", "i", "v", "a", "l">> >>

KwEnd == << <<"U+7D50", "U+675F">>, <<"U+4F5C", "U+696D", "U+5B8C", "U+6210">>,
            <<"E", "n", "d">> >>

KwTotalTime == << <<"U+4F5C", "U+696D", "U+7E3D", "U+6642", "U+9593">>,
                  <<"U+7E3D", "U+6642", "U+9593">>,
                  <<"D", "u", "r", "a", "t", "i", "o", "n">>,
                  <<"T", "o", "t", "a", "l", " ", "T", "i", "m", "e">> >>

KwWeight == << <<"U+91CD", "U+91CF">>, <<"W", "e", "i", "g", "h", "t">>,
               <<"(", "t", ")">> >>

\* the idx object of fetchCSV
ColumnIndex(headers) ==
    [truck     |-> findColIdx(headers, KwTruck),
     mat       |-> findColIdx(headers, KwMat),
     arrival   |-> findColIdx(headers, KwArrival),
     end       |-> findColIdx(headers, KwEnd),
     totalTime |-> findColIdx(headers, KwTotalTime),
     weight    |-> findColIdx(headers, KwWeight)]

-----------------------------------------------------------------------------
(* Numeric Normalizer: parseNumberSafe, App.tsx:132-136 *)

\* parseFloat gives NaN, or the number v as the one-element tuple <<v>>
NaN == <<>>

\* parseFloat: leading white space is skipped, then the longest prefix that is
\* a decimal literal (sign, digits, fraction) is converted; NaN when there is
\* none.  The value is in thousandths; digits past the third decimal are
\* dropped, and exponents and "Infinity" are outside the model's inputs.
parseFloat(str) ==
    LET s == TrimStart(str)
        neg == s # <<>> /\ Head(s) = "-"
        signed == s # <<>> /\ Head(s) \in {"-", "+"}
        b == IF signed THEN 2 ELSE 1
        nInt == DigitRun(s, b)
        hasDot == b + nInt <= Len(s) /\ s[b + nInt] = "."
        nFrac == IF hasDot THEN DigitRun(s, b + nInt + 1) ELSE 0
        intVal == DigitsValue(SubSeq(s, b, b + nInt - 1))
        frac3 == SubSeq(s, b + nInt + 1, b + nInt + Min2(nFrac, 3))
        fracVal == IF Len(frac3) = 0 THEN 0
                   ELSE IF Len(frac3) = 1 THEN 100 * DigitsValue(frac3)
                   ELSE IF Len(frac3) = 2 THEN 10 * DigitsValue(frac3)
                   ELSE DigitsValue(frac3)
        mag == intVal * Milli + fracVal
    IN  IF nInt = 0 /\ nFrac = 0 THEN NaN
        ELSE <<IF neg THEN 0 - mag ELSE mag>>

\* str is undefined (the cell is absent) or a string
Undefined == <<"undefined">>

parseNumberSafe(str) ==
    IF str = Undefined \/ str = <<>> THEN 0
    ELSE LET f == parseFloat(RemoveAll(str, {","}))
         IN  IF f = NaN \/ f = <<0>> THEN 0 ELSE f[1]

-----------------------------------------------------------------------------
(* Record Builder: the parsed table of fetchCSV, App.tsx:348-366 *)

\* c[i]: the cell at 0-based index i, undefined outside the row (and for -1)
CellAt(c, i) == IF i >= 0 /\ i < Len(c) THEN c[i + 1] ELSE Undefined

\* c[i] || dflt: undefined and the empty string are falsy
CellOr(c, i, dflt) ==
    IF CellAt(c, i) = Undefined \/ CellAt(c, i) = <<>> THEN dflt ELSE CellAt(c, i)

NA == <<"N", "/", "A">>

TruckDataOf(c, idx) ==
    [truckNo     |-> CellOr(c, idx.truck, NA),
     matName     |-> CellOr(c, idx.mat, NA),
     arrivalTime |-> CellOr(c, idx.arrival, <<>>),
     endTime     |-> CellOr(c, idx.end, <<>>),
     totalTime   |-> parseNumberSafe(CellAt(c, idx.totalTime)),
     weight      |-> parseNumberSafe(CellAt(c, idx.weight)),
     mxStock     |-> 0,
     whStock     |-> 0]

\* .filter(x => !!x.matName)
KeepRecord(x) == x.matName # <<>>

\* allRows.slice(1).map(...).filter(...), for a table with a header row
parsed(rows) ==
    LET headers == [j \in 1..Len(rows[1]) |-> trim(rows[1][j])]
        idx == ColumnIndex(headers)
        mapped == [r \in 1..(Len(rows) - 1) |-> TruckDataOf(rows[r + 1], idx)]
    IN  SelectSeq(mapped, KeepRecord)


-----------------------------------------------------------------------------
(* Dates: the Date constructor and getters the source uses *)

\* days from 1970-01-01 to the civil date y-m-d (m in 1..12, d any integer)
DaysFromCivil(y, m, d) ==
    LET yy == IF m <= 2 THEN y - 1 ELSE y
        era == yy \div 400
        yoe == yy - era * 400
        mp == (m + 9) % 12
        doy == (153 * mp + 2) \div 5 + d - 1
        doe == yoe * 365 + yoe \div 4 - yoe \div 100 + doy
    IN  era * 146097 + doe - 719468

\* the civil date of a day number, as [y, m, d]
CivilFromDays(z) ==
    LET zz == z + 719468
        era == zz \div 146097
        doe == zz - era * 146097
        yoe == (doe - doe \div 1460 + doe \div 36524 - doe \div 146096) \div 365
        doy == doe - (365 * yoe + yoe \div 4 - yoe \div 100)
        mp == (5 * doy + 2) \div 153
        mm == IF mp < 10 THEN mp + 3 ELSE mp - 9
    IN  [y |-> IF mm <= 2 THEN yoe + era * 400 + 1 ELSE yoe + era * 400,
         m |-> mm,
         d |-> doy - (153 * mp + 2) \div 5 + 1]

MinutesPerDay == 1440

\* new Date(year, monthIndex, day, hours, minutes): out-of-range components
\* carry over, and a year of 0..99 means 1900 + year
NewDate(year, monthIndex, day, hours, minutes) ==
    LET y0 == IF year >= 0 /\ year <= 99 THEN 1900 + year ELSE year
        y == y0 + monthIndex \div 12
        m == (monthIndex % 12) + 1
    IN  <<(DaysFromCivil(y, m, 1) + day - 1) * MinutesPerDay + hours * 60 + minutes>>

DayOf(dt) == dt[1] \div MinutesPerDay

getFullYear(dt) == CivilFromDays(DayOf(dt)).y

getMonth(dt) == CivilFromDays(DayOf(dt)).m - 1

getDate(dt) == CivilFromDays(DayOf(dt)).d

getHours(dt) == (dt[1] % MinutesPerDay) \div 60

getMinutes(dt) == dt[1] % 60

\* d.setDate(n): the same month and time of day, day of month n
setDate(dt, n) ==
    NewDate(getFullYear(dt), getMonth(dt), n, getHours(dt), getMinutes(dt))

\* String(n).padStart(2, '0') and the plain String(n), for n >= 0
RECURSIVE NatToString(_)
NatToString(n) ==
    IF n < 10 THEN <<Digits[n + 1]>>
    ELSE NatToString(n \div 10) \o <<Digits[(n % 10) + 1]>>

PadStart2(s) == IF Len(s) < 2 THEN <<"0">> \o s ELSE s

\* formatDateToISO, App.tsx:43-48
formatDateToISO(d) ==
    NatToString(getFullYear(d)) \o <<"-">> \o PadStart2(NatToString(getMonth(d) + 1))
        \o <<"-">> \o PadStart2(NatToString(getDate(d)))

getShiftDateString_SevenIsEarly(dt) ==
    formatDateToISO(IF getHours(dt) <= 7 THEN setDate(dt, getDate(dt) - 1) ELSE dt)

\* getShiftDateString, App.tsx:53-61
getShiftDateString(dt) ==
    LET h == getHours(dt)
        d == IF h < 7 THEN setDate(dt, getDate(dt) - 1) ELSE dt
    IN  formatDateToISO(d)

-----------------------------------------------------------------------------
(* Temporal Normalizer: smartParseDate, App.tsx:99-127 *)

DateSeparators == {"-", "/", "."}

\* Number(s) || 0 for a component of the time part: a run of digits is its
\* value; the empty string, text that is no number, and undefined give 0
NumberOr0(s) == IF s # <<>> /\ AllDigits(s) THEN DigitsValue(s) ELSE 0

\* datePart.match(/^(\d{4})[-/.](\d{1,2})[-/.](\d{1,2})/): the three groups,
\* or Null when the pattern does not match
IsoMatch(p) ==
    LET n2 == DigitRun(p, 6)
        n3 == Min2(DigitRun(p, 7 + n2), 2)
    IN  IF /\ DigitRun(p, 1) >= 4
           /\ Len(p) >= 5 /\ p[5] \in DateSeparators
           /\ n2 \in {1, 2}
           /\ Len(p) >= 6 + n2 /\ p[6 + n2] \in DateSeparators
           /\ n3 >= 1
        THEN <<DigitsValue(SubSeq(p, 1, 4)), DigitsValue(SubSeq(p, 6, 5 + n2)),
               DigitsValue(SubSeq(p, 7 + n2, 6 + n2 + n3))>>
        ELSE Null

\* datePart.match(/^(\d{1,2})[-/.](\d{1,2})[-/.](\d{4})/)
DmyMatch(p) ==
    LET n1 == DigitRun(p, 1)
        n2 == DigitRun(p, n1 + 2)
    IN  IF /\ n1 \in {1, 2}
           /\ Len(p) >= n1 + 1 /\ p[n1 + 1] \in DateSeparators
           /\ n2 \in {1, 2}
           /\ Len(p) >= n1 + n2 + 2 /\ p[n1 + n2 + 2] \in DateSeparators
           /\ DigitRun(p, n1 + n2 + 3) >= 4
        THEN <<DigitsValue(SubSeq(p, 1, n1)), DigitsValue(SubSeq(p, n1 + 2, n1 + n2 + 1)),
               DigitsValue(SubSeq(p, n1 + n2 + 3, n1 + n2 + 6))>>
        ELSE Null

\* new Date(cleanStr), the generic parser of line 125, on text that neither
\* pattern matched: what it accepts is implementation-defined, and the texts of
\* this model that reach it (empty, words) are invalid dates in every engine
GenericDateParse(cleanStr) == Null

\* .replace(/\u00a0/g, ' ')
NbspToSpace(s) == [i \in 1..Len(s) |-> IF s[i] = NBSP THEN " " ELSE s[i]]

smartParseDate(str) ==
    IF str = <<>> THEN Null
    ELSE LET cleanStr == NbspToSpace(RemoveAll(trim(str), {ZWSP, ZWNJ, ZWJ, BOM}))
             parts == SplitSpaces(cleanStr, 1, <<>>)
             datePart == parts[1]
             timePart == IF Len(parts) > 1 THEN parts[2] ELSE <<"0", "0", ":", "0", "0">>
             hm == SplitOn(timePart, ":", 1, <<>>)
             hh == NumberOr0(hm[1])
             mm == IF Len(hm) > 1 THEN NumberOr0(hm[2]) ELSE 0
             isoMatch == IsoMatch(datePart)
             dmyMatch == DmyMatch(datePart)
         IN  IF isoMatch # Null
             THEN NewDate(isoMatch[1], isoMatch[2] - 1, isoMatch[3], hh, mm)
             ELSE IF dmyMatch # Null
                  THEN NewDate(dmyMatch[3], dmyMatch[2] - 1, dmyMatch[1], hh, mm)
                  ELSE GenericDateParse(cleanStr)


-----------------------------------------------------------------------------
(* CSV text of a table, as the feed writes it: a cell is quoted when it holds
   a comma, a quote or a line break, inner quotes are doubled, and every row
   ends with a line feed *)

NeedsQuotes(cell) == \E i \in 1..Len(cell) : cell[i] \in {",", "\"", "\n", "\r"}

RECURSIVE DoubleQuotes(_)
DoubleQuotes(cell) ==
    IF cell = <<>> THEN <<>>
    ELSE (IF Head(cell) = "\"" THEN <<"\"", "\"">> ELSE <<Head(cell)>>)
             \o DoubleQuotes(Tail(cell))

EncodeCell(cell) ==
    IF NeedsQuotes(cell) THEN <<"\"">> \o DoubleQuotes(cell) \o <<"\"">> ELSE cell

RECURSIVE EncodeRow(_)
EncodeRow(row) ==
    IF Len(row) = 0 THEN <<>>
    ELSE IF Len(row) = 1 THEN EncodeCell(row[1])
    ELSE EncodeCell(row[1]) \o <<",">> \o EncodeRow(Tail(row))

\* the same with the line terminator eol (LF, CR LF or CR) after every row
RECURSIVE EncodeCSVWith(_, _)
EncodeCSVWith(rows, eol) ==
    IF rows = <<>> THEN <<>>
    ELSE EncodeRow(Head(rows)) \o eol \o EncodeCSVWith(Tail(rows), eol)

RECURSIVE EncodeCSV(_)
EncodeCSV(rows) ==
    IF rows = <<>> THEN <<>>
    ELSE EncodeRow(Head(rows)) \o <<"\n">> \o EncodeCSV(Tail(rows))

-----------------------------------------------------------------------------
(* The feed: header row and data rows of the responses the model serves *)

HeaderRow == << <<"T", "r", "u", "c", "k">>,
                <<"M", "a", "t", "e", "r", "i", "a", "l">>,
                <<"A", "r", "r", "i", "v", "a", "l">>,
                <<"E", "n", "d">>,
                <<"T", "o", "t", "a", "l", " ", "T", "i", "m", "e">>,
                <<"W", "e", "i", "g", "h", "t">> >>

Sand == <<"S", "a", "n", "d">>
Gravel == <<"G", "r", "a", "v", "e", "l">>
Cement == <<"C", "e", "m", "e", "n", "t">>

Jan10_0630 == <<"2", "0", "2", "4", "-", "0", "1", "-", "1", "0", " ", "0", "6", ":", "3", "0">>
Jan10_0800 == <<"2", "0", "2", "4", "-", "0", "1", "-", "1", "0", " ", "0", "8", ":", "0", "0">>
Jan11_0659 == <<"2", "0", "2", "4", "-", "0", "1", "-", "1", "1", " ", "0", "6", ":", "5", "9">>

RowA1 == << <<"A", "1">>, Sand, Jan10_0630, <<>>, <<"4", "5">>, <<"1", ",", "2", "0", "0">> >>
RowA2 == << <<"A", "2">>, Gravel, Jan10_0800, <<>>, <<"3", "0">>, <<"8", "0", "0">> >>
RowB1 == << <<"B", "1">>, Cement, Jan11_0659, <<>>, <<"6", "0">>, <<"5", "0", "0">> >>

\* the bodies res.text() can deliver: two tables with data rows, a table with
\* the header only, and an empty body
Responses == {EncodeCSV(<<HeaderRow, RowA1, RowA2>>), EncodeCSV(<<HeaderRow, RowB1>>),
              EncodeCSV(<<HeaderRow>>), <<>>}

\* sequences of length lo..hi over the set S
SeqsOf(S, lo, hi) == UNION {[1..k -> S] : k \in lo..hi}

\* a header row without a material column
HeaderNoMat == << <<"T", "r", "u", "c", "k">>,
                  <<"A", "r", "r", "i", "v", "a", "l">>,
                  <<"W", "e", "i", "g", "h", "t">> >>

\* data rows as the feed may hold them: complete, with an empty, a blank or
\* no material cell, an empty line, signed and fractional numbers, words
\* where numbers belong
FeedRows ==
    { RowA1,
      << <<"A", "2">>, <<>>, Jan10_0800, <<>>, <<"3", "0">>, <<"8", "0", "0">> >>,
      << <<"A", "3">>, <<" ", " ">>, Jan10_0800, <<>>, <<"a", "b", "c">>, <<>> >>,
      << <<"A", "4">> >>,
      << <<"B", "5">>, Gravel, Jan11_0659, <<>>, <<"-", "5">>, <<"-", "5", "0", "0">> >>,
      << <<>> >>,
      << <<"C", "6">>, Cement, <<>>, <<>>, <<"1", "2", ".", "5">>, <<"0", ".", "7", "5">> >> }

\* tables with one header row and 1..MaxRecords data rows
FeedTables ==
    {<<h>> \o rs : h \in {HeaderRow, HeaderNoMat}, rs \in SeqsOf(FeedRows, 1, MaxRecords)}

FeedTexts == {EncodeCSV(t) : t \in FeedTables}

\* a third data row without a material name: with an arrival inside the shift
\* of 10 January, cut off after the truck number, and empty throughout
RowsWithoutMaterial ==
    { << <<"A", "3">>, <<>>,
         <<"2", "0", "2", "4", "-", "0", "1", "-", "1", "0", " ", "0", "9", ":", "0", "0">>,
         <<>>, <<"2", "0">>, <<"5", "0", "0">> >>,
      << <<"A", "3">> >>,
      << <<>>, <<>>, <<>>, <<>>, <<>>, <<>> >> }

\* the feed of three data rows: 1,200 kg at 06:30 and 800 kg at 08:00 on
\* 10 January 2024, and a row without a material name
ThreeRowTexts == {EncodeCSV(<<HeaderRow, RowA1, RowA2, third>>) : third \in RowsWithoutMaterial}

\* const allRows = robustParseCSV(text), for each body
Decoded == [text \in Responses \cup FeedTexts \cup ThreeRowTexts |-> robustParseCSV(text)]

\* const parsed = allRows.slice(1).map(...).filter(...), for each decoded
\* table that gets past the early return
RecordsOf == [rows \in {Decoded[text] : text \in DOMAIN Decoded} |->
                 IF Len(rows) > 1 THEN parsed(rows) ELSE <<>>]

-----------------------------------------------------------------------------
(* The App component: state after construction, App.tsx:289-327 *)

Rates == 1..MaxRate

\* analyzeLogisticsData has not been called
NoCall == [pc |-> "idle", prompt |-> <<>>, value |-> <<>>, failed |-> FALSE]

\* getISTNow() at construction: 2024-01-10 08:00, factory time
Now0 == NewDate(2024, 0, 10, 8, 0)

InitApp(now, saved) ==
    /\ mounted = FALSE
    /\ rawData = <<>>
    /\ dataVersion = 0
    /\ animationTick = 0
    /\ isSettingsOpen = FALSE
    /\ isLoading = FALSE
    /\ isPaused = FALSE
    /\ date = now
    /\ shiftDate = getShiftDateString(now)
    /\ monitorDate = getShiftDateString(now)
    /\ settings = saved
    /\ filters = [startDate |-> formatDateToISO(setDate(now, getDate(now) - 30)),
                  endDate |-> formatDateToISO(now),
                  material |-> <<>>]
    /\ countdown = saved.refreshRate
    /\ inflight = <<>>
    /\ allRows = <<>>
    /\ lastOutcome = "none"
    /\ aiCall = NoCall

\* the configuration read from localStorage (or the default one), with the
\* refresh rate within the model's bound
SavedSettings ==
    [refreshRate : Rates, benchmarkTime : {<<60 * Milli>>}, animationEnabled : {FALSE}]

Init == \E saved \in SavedSettings : InitApp(Now0, saved)

-----------------------------------------------------------------------------
(* fetchCSV, App.tsx:341-371 *)

\* the call up to its first await: setIsLoading(true), and the request is out
StartFetch(by) ==
    /\ Len(inflight) < MaxInflight
    /\ isLoading' = TRUE
    /\ inflight' = Append(inflight, [by |-> by])

RemoveAt(q, i) == SubSeq(q, 1, i - 1) \o SubSeq(q, i + 1, Len(q))

Finally_Missing == UNCHANGED isLoading

\* finally { setIsLoading(false) }
Finally == isLoading' = FALSE

FetchFail_ClearsData(i) ==
    /\ i \in 1..Len(inflight)
    /\ inflight' = RemoveAt(inflight, i)
    /\ lastOutcome' = "error"
    /\ rawData' = <<>>
    /\ Finally
    /\ UNCHANGED <<mounted, dataVersion, animationTick, isSettingsOpen,
                   isPaused, monitorDate, settings, filters, countdown, allRows,
                   date, shiftDate, aiCall>>

\* the request or the reading of the body rejects: catch logs, finally runs
FetchFail(i) ==
    /\ i \in 1..Len(inflight)
    /\ inflight' = RemoveAt(inflight, i)
    /\ lastOutcome' = "error"
    /\ Finally
    /\ UNCHANGED <<mounted, rawData, dataVersion, animationTick, isSettingsOpen,
                   isPaused, monitorDate, settings, filters, countdown, allRows,
                   date, shiftDate, aiCall>>

SetRawData_Merges(old, new) == old \o new

\* setRawData(parsed)
SetRawData(old, new) == new

\* the body arrives: decode; return early on a table without data rows;
\* otherwise replace the record set and bump the data version
FetchDone(i, text) ==
    LET rows == Decoded[text] IN
    /\ i \in 1..Len(inflight)
    /\ Len(rows) > 1 => dataVersion < MaxVersion
    /\ inflight' = RemoveAt(inflight, i)
    /\ IF Len(rows) <= 1
       THEN /\ lastOutcome' = "empty"
            /\ UNCHANGED <<rawData, dataVersion, allRows>>
       ELSE /\ lastOutcome' = "ok"
            /\ allRows' = rows
            /\ rawData' = SetRawData(rawData, RecordsOf[rows])
            /\ dataVersion' = dataVersion + 1
    /\ Finally
    /\ UNCHANGED <<mounted, animationTick, isSettingsOpen, isPaused, monitorDate,
                   settings, filters, countdown, date, shiftDate, aiCall>>

\* useEffect(() => { fetchCSV(); }, [fetchCSV]), App.tsx:373
Mount ==
    /\ ~mounted
    /\ mounted' = TRUE
    /\ StartFetch("mount")
    /\ UNCHANGED <<rawData, dataVersion, animationTick, isSettingsOpen, isPaused,
                   monitorDate, settings, filters, countdown, allRows, lastOutcome,
                   date, shiftDate, aiCall>>

\* the Update button, App.tsx:588: onClick={fetchCSV}, never disabled
ClickUpdate ==
    /\ mounted
    /\ StartFetch("click")
    /\ UNCHANGED <<mounted, rawData, dataVersion, animationTick, isSettingsOpen,
                   isPaused, monitorDate, settings, filters, countdown, allRows,
                   lastOutcome, date, shiftDate, aiCall>>

-----------------------------------------------------------------------------
(* DashboardTimer, App.tsx:162-178 and 508-513 *)

TimerPaused_IgnoresLoading == isPaused

\* the isPaused prop: isPaused || isLoading
TimerPaused == isPaused \/ isLoading

\* one firing of the 1000 ms interval, which exists only while not paused
TimerTick ==
    /\ mounted
    /\ ~TimerPaused
    /\ IF countdown <= 1
       THEN /\ StartFetch("timer")
            /\ countdown' = settings.refreshRate
       ELSE /\ countdown' = countdown - 1
            /\ UNCHANGED <<isLoading, inflight>>
    /\ UNCHANGED <<mounted, rawData, dataVersion, animationTick, isSettingsOpen,
                   isPaused, monitorDate, settings, filters, allRows, lastOutcome,
                   date, shiftDate, aiCall>>

\* onTogglePause={() => setIsPaused(!isPaused)}
TogglePause ==
    /\ mounted
    /\ isPaused' = ~isPaused
    /\ UNCHANGED <<mounted, rawData, dataVersion, animationTick, isSettingsOpen,
                   isLoading, monitorDate, settings, filters, countdown, inflight,
                   allRows, lastOutcome, date, shiftDate, aiCall>>

-----------------------------------------------------------------------------
(* Settings dialog and animation tick *)

\* the gear button, App.tsx:527, and the close button, App.tsx:676
ToggleSettingsOpen ==
    /\ mounted
    /\ isSettingsOpen' = ~isSettingsOpen
    /\ UNCHANGED <<mounted, rawData, dataVersion, animationTick, isLoading, isPaused,
                   monitorDate, settings, filters, countdown, inflight, allRows,
                   lastOutcome, date, shiftDate, aiCall>>

\* the refresh-rate input, App.tsx:680; DashboardTimer's effect on [rate]
\* (App.tsx:164) resets the countdown when the rate has changed
SetRefreshRate(r) ==
    /\ isSettingsOpen
    /\ settings' = [settings EXCEPT !.refreshRate = r]
    /\ countdown' = IF r # settings.refreshRate THEN r ELSE countdown
    /\ UNCHANGED <<mounted, rawData, dataVersion, animationTick, isSettingsOpen,
                   isLoading, isPaused, monitorDate, filters, inflight, allRows,
                   lastOutcome, date, shiftDate, aiCall>>

\* the animation switch, App.tsx:721
ToggleAnimation ==
    /\ isSettingsOpen
    /\ settings' = [settings EXCEPT !.animationEnabled = ~settings.animationEnabled]
    /\ UNCHANGED <<mounted, rawData, dataVersion, animationTick, isSettingsOpen,
                   isLoading, isPaused, monitorDate, filters, countdown, inflight,
                   allRows, lastOutcome, date, shiftDate, aiCall>>

\* the interval of App.tsx:331-337, which exists while animation is enabled
AnimationTick ==
    /\ mounted
    /\ settings.animationEnabled
    /\ animationTick < MaxTick
    /\ animationTick' = animationTick + 1
    /\ UNCHANGED <<mounted, rawData, dataVersion, isSettingsOpen, isLoading, isPaused,
                   monitorDate, settings, filters, countdown, inflight, allRows,
                   lastOutcome, date, shiftDate, aiCall>>

\* handleApplySettings, App.tsx:477-482
handleApplySettings ==
    /\ isSettingsOpen
    /\ dataVersion < MaxVersion
    /\ isSettingsOpen' = FALSE
    /\ dataVersion' = dataVersion + 1
    /\ animationTick' = 0
    /\ UNCHANGED <<mounted, rawData, isLoading, isPaused, monitorDate, settings,
                   filters, countdown, inflight, allRows, lastOutcome, date, shiftDate, aiCall>>

\* const combinedVersion = dataVersion + animationTick, App.tsx:339
combinedVersion == dataVersion + animationTick

-----------------------------------------------------------------------------
(* The dashboard as a state machine *)

FetchSettles ==
    \/ \E i \in 1..MaxInflight : FetchFail(i)
    \/ \E i \in 1..MaxInflight, text \in Responses : FetchDone(i, text)

UserActs ==
    \/ ClickUpdate
    \/ TogglePause
    \/ ToggleSettingsOpen
    \/ \E r \in Rates : SetRefreshRate(r)
    \/ ToggleAnimation
    \/ handleApplySettings

Next ==
    \/ Mount
    \/ TimerTick
    \/ AnimationTick
    \/ FetchSettles
    \/ UserActs

Spec == Init /\ [][Next]_vars


\* the interval timers fire while they exist, the mount effect runs, and every
\* request ends (it resolves or rejects)
FairSpec ==
    /\ Spec
    /\ WF_vars(Mount)
    /\ WF_vars(TimerTick)
    /\ WF_vars(FetchSettles)

-----------------------------------------------------------------------------
(* Claims about the fetch and timer state machine *)

\* C1: at most one CSV fetch is in flight at any time, over any sequence of
\* the mount-time fetch, timer expiries and manual Update clicks.
C1_AtMostOneFetch == Len(inflight) <= 1

\* a fetch that the timer started is in flight
TimerFetchInFlight == \E i \in 1..Len(inflight) : inflight[i].by = "timer"

\* this step is the timer starting a fetch
TimerStartsFetch ==
    /\ Len(inflight') = Len(inflight) + 1
    /\ inflight'[Len(inflight')].by = "timer"

\* this step is a fetch getting past the early return and storing its records
FetchSucceeds == FetchSettles /\ lastOutcome' = "ok"

\* C2: when a fetch fails, the failure is handled inside the fetch and the
\* step leaves the record set (and the data version) exactly as they were.
C2_FailureKeepsRecords ==
    [][(\E i \in 1..MaxInflight : FetchFail(i))
          => (rawData' = rawData /\ dataVersion' = dataVersion)]_vars

C2_Witness == lastOutcome = "error" /\ Len(rawData) = 2 /\ dataVersion = 1

\* C3: the version handed to the charts (dataVersion + animationTick) never
\* decreases, and strictly increases on every successful fetch, animation
\* tick and settings save.
C3_VersionMonotone ==
    [][/\ combinedVersion' >= combinedVersion
       /\ (FetchSucceeds \/ AnimationTick \/ handleApplySettings)
             => combinedVersion' > combinedVersion]_vars

C5_SuccessReplaces ==
    [][FetchSucceeds
          => (rawData' = RecordsOf[allRows'] /\ dataVersion' = dataVersion + 1)]_vars

C5_Witness ==
    /\ lastOutcome = "ok"
    /\ dataVersion = 2
    /\ Len(allRows) = 2
    /\ Len(rawData) = 1
    /\ rawData[1].matName = Cement

\* C6 as stated: while the timer is paused the countdown does not change and
\* the timer starts no fetch.
C6_PausedCountdownFrozen ==
    [][(isPaused \/ isLoading) => (countdown' = countdown /\ ~TimerStartsFetch)]_vars

\* C6 as amended: while the timer is paused the timer starts no fetch, and the
\* countdown changes only when the refresh rate is changed, which resets it
\* to the new rate; with the rate untouched, the countdown at the end of the
\* pause is the one at its beginning.
C6_PausedCountdownFrozenUnlessRateSet ==
    [][(isPaused \/ isLoading)
          => /\ ~TimerStartsFetch
             /\ \/ countdown' = countdown
                \/ /\ settings'.refreshRate # settings.refreshRate
                   /\ countdown' = settings'.refreshRate]_vars

C6_Witness ==
    /\ isLoading /\ ~isPaused
    /\ countdown < settings.refreshRate
    /\ lastOutcome = "ok"


-----------------------------------------------------------------------------
(* The record builder on its own: the mount-time fetch receives a feed table *)

\* the state in which the mount-time fetch is waiting for its response
InitBuild ==
    /\ mounted = TRUE
    /\ rawData = <<>>
    /\ dataVersion = 0
    /\ animationTick = 0
    /\ isSettingsOpen = FALSE
    /\ isLoading = TRUE
    /\ isPaused = FALSE
    /\ date = Now0
    /\ shiftDate = getShiftDateString(Now0)
    /\ monitorDate = getShiftDateString(Now0)
    /\ settings \in SavedSettings
    /\ filters = [startDate |-> formatDateToISO(setDate(Now0, getDate(Now0) - 30)),
                  endDate |-> formatDateToISO(Now0),
                  material |-> <<>>]
    /\ countdown = settings.refreshRate
    /\ inflight = <<[by |-> "mount"]>>
    /\ allRows = <<>>
    /\ lastOutcome = "none"
    /\ aiCall = NoCall

NextBuild == \E text \in FeedTexts : FetchDone(1, text)

SpecBuild == InitBuild /\ [][NextBuild]_vars

\* the material cell of a data row is absent, empty or blank
BlankMaterial(headerRow, c) ==
    LET i == findColIdx([j \in 1..Len(headerRow) |-> trim(headerRow[j])], KwMat)
    IN  i < 0 \/ i >= Len(c) \/ trim(c[i + 1]) = <<>>

\* the data rows of a table that have a material
RowsWithMaterial(rows) ==
    SelectSeq(SubSeq(rows, 2, Len(rows)), LAMBDA c : ~BlankMaterial(rows[1], c))

\* C7: the record builder produces no record for a data row whose material
\* cell is absent, empty or blank, and exactly one record for every other
\* data row, in row order.
C7_BlankMaterialDropped ==
    lastOutcome = "ok" =>
        /\ Len(rawData) = Len(RowsWithMaterial(allRows))
        /\ \A k \in 1..Len(rawData) :
               /\ rawData[k].truckNo = RowsWithMaterial(allRows)[k][1]
               /\ rawData[k].matName = RowsWithMaterial(allRows)[k][2]


-----------------------------------------------------------------------------
(* getShiftDateString on its own: the shift day of an arrival Date, as
   timelineData asks for it (App.tsx:399) *)

\* the years of the instants tried; 2100 is a century year that is no leap year
ShiftYears == 2023..(2023 + MaxYears) \cup {2100}

\* every day of every month (day numbers past the end of a month carry over),
\* around midnight, around 07:00 and late in the evening
ShiftInstants ==
    {NewDate(y, m, d, h, mi) :
        y \in ShiftYears, m \in 0..11, d \in 1..31, h \in {0, 6, 7, 23}, mi \in {0, 59}}

InitShift ==
    /\ mounted = TRUE
    /\ rawData = <<>>
    /\ dataVersion = 0
    /\ animationTick = 0
    /\ isSettingsOpen = FALSE
    /\ isLoading = FALSE
    /\ isPaused = FALSE
    /\ date \in ShiftInstants
    /\ shiftDate = <<>>
    /\ monitorDate = getShiftDateString(Now0)
    /\ settings \in SavedSettings
    /\ filters = [startDate |-> formatDateToISO(setDate(Now0, getDate(Now0) - 30)),
                  endDate |-> formatDateToISO(Now0),
                  material |-> <<>>]
    /\ countdown = settings.refreshRate
    /\ inflight = <<>>
    /\ allRows = <<>>
    /\ lastOutcome = "none"
    /\ aiCall = NoCall

\* const k = getShiftDateString(d)
CallShiftDate ==
    /\ shiftDate = <<>>
    /\ shiftDate' = getShiftDateString(date)
    /\ UNCHANGED <<mounted, rawData, dataVersion, animationTick, isSettingsOpen,
                   isLoading, isPaused, monitorDate, settings, filters, countdown,
                   inflight, allRows, lastOutcome, date, aiCall>>

NextShift == CallShiftDate

SpecShift == InitShift /\ [][NextShift]_vars

\* the calendar, by its table: the days of a month, and the day before a day
IsLeapYear(y) == (y % 4 = 0 /\ y % 100 # 0) \/ y % 400 = 0

DaysInMonth(y, m) ==
    IF m = 2 THEN (IF IsLeapYear(y) THEN 29 ELSE 28)
    ELSE IF m \in {4, 6, 9, 11} THEN 30 ELSE 31

DayBefore(c) ==
    IF c.d > 1 THEN [c EXCEPT !.d = c.d - 1]
    ELSE IF c.m > 1 THEN [y |-> c.y, m |-> c.m - 1, d |-> DaysInMonth(c.y, c.m - 1)]
    ELSE [y |-> c.y - 1, m |-> 12, d |-> 31]

\* YYYY-MM-DD of a calendar day in the years 1000..9999
IsoOfCivil(c) ==
    << Digits[(c.y \div 1000) + 1], Digits[((c.y \div 100) % 10) + 1],
       Digits[((c.y \div 10) % 10) + 1], Digits[(c.y % 10) + 1], "-",
       Digits[(c.m \div 10) + 1], Digits[(c.m % 10) + 1], "-",
       Digits[(c.d \div 10) + 1], Digits[(c.d % 10) + 1] >>

\* the calendar day an instant lies in
CivilOf(dt) == [y |-> getFullYear(dt), m |-> getMonth(dt) + 1, d |-> getDate(dt)]

\* C9: for every instant, the shift date is the previous calendar date when
\* the local hour is below 7 and the instant's own calendar date otherwise
\* (2024-03-05 06:59 gives 2024-03-04, 07:00 gives 2024-03-05), also across
\* month and year boundaries.
C9_ShiftDate ==
    shiftDate # <<>> =>
        /\ shiftDate = IsoOfCivil(IF getHours(date) < 7 THEN DayBefore(CivilOf(date))
                                  ELSE CivilOf(date))
        /\ date = NewDate(2024, 2, 5, 6, 59)
              => shiftDate = <<"2", "0", "2", "4", "-", "0", "3", "-", "0", "4">>
        /\ date = NewDate(2024, 2, 5, 7, 0)
              => shiftDate = <<"2", "0", "2", "4", "-", "0", "3", "-", "0", "5">>
        /\ date = NewDate(2024, 2, 1, 6, 59)
              => shiftDate = <<"2", "0", "2", "4", "-", "0", "2", "-", "2", "9">>
        /\ date = NewDate(2100, 2, 1, 0, 0)
              => shiftDate = <<"2", "1", "0", "0", "-", "0", "2", "-", "2", "8">>

\* the first morning of a year, before the shift starts, belongs to 31 December
C9_Witness ==
    /\ date = NewDate(2024, 0, 1, 6, 59)
    /\ shiftDate = <<"2", "0", "2", "3", "-", "1", "2", "-", "3", "1">>


-----------------------------------------------------------------------------
(* The filter and the material ranking: filteredData and paretoData *)

\* the test of rawData.filter(...) with d <= eB in place of d < eB
FilterKeeps_ClosedEnd(r, sB, eB, material) ==
    LET d == smartParseDate(r.arrivalTime)
    IN  /\ d # Null
        /\ d[1] >= sB[1]
        /\ d[1] <= eB[1]
        /\ (material = <<>> \/ includes(toLowerCase(r.matName), toLowerCase(material)))

\* the test of rawData.filter(...), App.tsx:388-391
FilterKeeps(r, sB, eB, material) ==
    LET d == smartParseDate(r.arrivalTime)
    IN  /\ d # Null
        /\ d[1] >= sB[1]
        /\ d[1] < eB[1]
        /\ (material = <<>> \/ includes(toLowerCase(r.matName), toLowerCase(material)))

\* filteredData with the range cut at midnight in place of 07:00
filteredDataOf_FromMidnight(data, f) ==
    LET s == smartParseDate(f.startDate)
        e == smartParseDate(f.endDate)
    IN  IF s = Null \/ e = Null THEN <<>>
        ELSE LET sB == NewDate(getFullYear(s), getMonth(s), getDate(s), 0, 0)
                 eB == NewDate(getFullYear(e), getMonth(e), getDate(e) + 1, 0, 0)
             IN  SelectSeq(data, LAMBDA r : FilterKeeps(r, sB, eB, f.material))

\* filteredData, App.tsx:380-392, of a record set under a filter
filteredDataOf(data, f) ==
    LET s == smartParseDate(f.startDate)
        e == smartParseDate(f.endDate)
    IN  IF s = Null \/ e = Null THEN <<>>
        ELSE LET sB == NewDate(getFullYear(s), getMonth(s), getDate(s), 7, 0)
                 eB == NewDate(getFullYear(e), getMonth(e), getDate(e) + 1, 7, 0)
             IN  SelectSeq(data, LAMBDA r : FilterKeeps(r, sB, eB, f.material))

filteredData == filteredDataOf(rawData, filters)

\* the sum of r.weight over the first k records of a material; r.weight / 1000
\* is a weight in tonnes, kept here in millionths of a tonne
RECURSIVE SumWeight(_, _, _)
SumWeight(data, name, k) ==
    IF k = 0 THEN 0
    ELSE SumWeight(data, name, k - 1) + (IF data[k].matName = name THEN data[k].weight ELSE 0)

\* Object.entries(stats): one entry per material, in the order in which the
\* materials first appear (no material name of the model is an array index)
StatsEntries(data) ==
    LET firsts == SelectSeq([k \in 1..Len(data) |-> k],
                            LAMBDA k : \A j \in 1..(k - 1) : data[j].matName # data[k].matName)
    IN  [i \in 1..Len(firsts) |->
            [name |-> data[firsts[i]].matName,
             t    |-> SumWeight(data, data[firsts[i]].matName, Len(data))]]

\* .sort((a,b) => b[1]-a[1]): descending and stable
SortDescending(entries) ==
    LET Before(j, i) == entries[j].t > entries[i].t \/ (entries[j].t = entries[i].t /\ j < i)
        rank(i) == Cardinality({j \in 1..Len(entries) : Before(j, i)}) + 1
    IN  [p \in 1..Len(entries) |-> entries[CHOOSE i \in 1..Len(entries) : rank(i) = p]]

\* .slice(0, 10)
SliceTen(q) == SubSeq(q, 1, Min2(Len(q), 10))

\* Math.round(n / d) for d > 0: the nearest integer, a half going up
MathRound(n, d) == (2 * n + d) \div (2 * d)

\* parseFloat(t.toFixed(1)) of a weight in millionths of a tonne, in tenths of
\* a tonne: the nearest tenth, a half going away from zero
ToFixed1(t) == IF t >= 0 THEN (t + 50000) \div 100000 ELSE 0 - ((50000 - t) \div 100000)

RECURSIVE SumTons(_, _)
SumTons(q, k) == IF k = 0 THEN 0 ELSE SumTons(q, k - 1) + q[k].tons

\* paretoData, App.tsx:430-438; tons and top10Total in tenths of a tonne
paretoDataOf(data) ==
    LET sorted == [i \in 1..Len(SliceTen(SortDescending(StatsEntries(data)))) |->
                      [name |-> SliceTen(SortDescending(StatsEntries(data)))[i].name,
                       tons |-> ToFixed1(SliceTen(SortDescending(StatsEntries(data)))[i].t)]]
        top10Total == SumTons(sorted, Len(sorted))
    IN  [items |-> [i \in 1..Len(sorted) |->
                       [name |-> sorted[i].name,
                        tons |-> sorted[i].tons,
                        percentage |-> IF top10Total > 0
                                       THEN MathRound(SumTons(sorted, i) * 100, top10Total)
                                       ELSE 0]],
         top10Total |-> top10Total]

paretoData == paretoDataOf(filteredData)

\* arrival cells around the shift boundaries of 31 January and 1 February 2024
Jan31_0630_DayFirst == <<"3", "1", "/", "0", "1", "/", "2", "0", "2", "4", " ", "0", "6", ":", "3", "0">>
Jan31_0700 == <<"2", "0", "2", "4", "-", "0", "1", "-", "3", "1", " ", "0", "7", ":", "0", "0">>
Feb01_0659 == <<"2", "0", "2", "4", "-", "0", "2", "-", "0", "1", " ", "0", "6", ":", "5", "9">>
Feb01_0700 == <<"2", "0", "2", "4", "-", "0", "2", "-", "0", "1", " ", "0", "7", ":", "0", "0">>

Sandstone == <<"S", "A", "N", "D", "S", "T", "O", "N", "E">>

\* data rows of the feed: arrivals on either side of 07:00, an arrival text
\* that is no date, a day-first date, material names in either case, and
\* weights of either sign
ViewRows ==
    { << <<"T", "1">>, Sand, Jan31_0630_DayFirst, <<>>, <<"4", "5">>, <<"1", ",", "2", "0", "0">> >>,
      << <<"T", "2">>, Gravel, Jan31_0700, <<>>, <<"3", "0">>, <<"3", "4", "0">> >>,
      << <<"T", "3">>, Sandstone, Feb01_0659, <<>>, <<"6", "0">>, <<"-", "1", ",", "0", "0", "0">> >>,
      << <<"T", "4">>, Cement, Feb01_0700, <<>>, <<"2", "0">>, <<"2", ",", "0", "0", "0">> >>,
      << <<"T", "5">>, Gravel, <<"s", "o", "o", "n">>, <<>>, <<"1", "0">>, <<"5", "0", "0">> >>
    }

\* a table of eleven materials, the k-th weighing k * 100 kg
ManyMaterials ==
    <<HeaderRow>> \o
    [k \in 1..11 |-> << <<"T">>, <<"M", LowerCase[k]>>, Jan31_0700, <<>>, <<"1", "0">>,
                        NatToString(k * 100) >>]

\* a table of two loads of 1,260 kg, of two materials, on one shift day
TwoLoadsOneDay ==
    << HeaderRow,
       << <<"L", "1">>, Sand, Jan31_0700, <<>>, <<"3", "0">>, <<"1", "2", "6", "0">> >>,
       << <<"L", "2">>, Gravel, Feb01_0659, <<>>, <<"3", "0">>, <<"1", "2", "6", "0">> >> >>

ViewTables ==
    {<<HeaderRow>> \o rs : rs \in SeqsOf(ViewRows, 1, MaxRecords)}
        \cup {ManyMaterials, TwoLoadsOneDay}

\* the values of the two date inputs (empty when cleared) and of the material input
FilterDates == { <<>>,
                 <<"2", "0", "2", "4", "-", "0", "1", "-", "3", "0">>,
                 <<"2", "0", "2", "4", "-", "0", "1", "-", "3", "1">> }

FilterMaterials == { <<>>, <<"s", "a", "n", "d">>, <<"G", "R", "A", "V">> }

NowView == NewDate(2024, 0, 31, 12, 0)

\* the dashboard after the mount-time fetch has delivered a table
InitView ==
    /\ mounted = TRUE
    /\ allRows \in ViewTables
    /\ rawData = parsed(allRows)
    /\ dataVersion = 1
    /\ animationTick = 0
    /\ isSettingsOpen = FALSE
    /\ isLoading = FALSE
    /\ isPaused = FALSE
    /\ date = NowView
    /\ shiftDate = getShiftDateString(NowView)
    /\ monitorDate = getShiftDateString(NowView)
    /\ settings \in {x \in SavedSettings : x.refreshRate = 1}
    /\ filters = [startDate |-> formatDateToISO(setDate(NowView, getDate(NowView) - 30)),
                  endDate |-> formatDateToISO(NowView),
                  material |-> <<>>]
    /\ countdown = settings.refreshRate
    /\ inflight = <<>>
    /\ lastOutcome = "ok"
    /\ aiCall = NoCall

\* onChange of the start-date input, App.tsx:577
SetStartDate(v) ==
    /\ filters' = [filters EXCEPT !.startDate = v]
    /\ UNCHANGED <<mounted, rawData, dataVersion, animationTick, isSettingsOpen, isLoading,
                   isPaused, monitorDate, settings, countdown, inflight, allRows,
                   lastOutcome, date, shiftDate, aiCall>>

\* onChange of the end-date input, App.tsx:578
SetEndDate(v) ==
    /\ filters' = [filters EXCEPT !.endDate = v]
    /\ UNCHANGED <<mounted, rawData, dataVersion, animationTick, isSettingsOpen, isLoading,
                   isPaused, monitorDate, settings, countdown, inflight, allRows,
                   lastOutcome, date, shiftDate, aiCall>>

\* onChange of the material input, App.tsx:583
SetMaterial(v) ==
    /\ filters' = [filters EXCEPT !.material = v]
    /\ UNCHANGED <<mounted, rawData, dataVersion, animationTick, isSettingsOpen, isLoading,
                   isPaused, monitorDate, settings, countdown, inflight, allRows,
                   lastOutcome, date, shiftDate, aiCall>>

NextView ==
    \/ \E v \in FilterDates : SetStartDate(v)
    \/ \E v \in FilterDates : SetEndDate(v)
    \/ \E v \in FilterMaterials : SetMaterial(v)

SpecView == InitView /\ [][NextView]_vars

\* 07:00 on the calendar day written YYYY-MM-DD, or on the day `after` days
\* later, in minutes since the epoch
SevenOClock(iso, after) ==
    (DaysFromCivil(DigitsValue(SubSeq(iso, 1, 4)), DigitsValue(SubSeq(iso, 6, 7)),
                   DigitsValue(SubSeq(iso, 9, 10))) + after) * MinutesPerDay + 7 * 60

\* text k occurs in text s when upper and lower case are not told apart
ContainsIgnoringCase(s, k) ==
    \E i \in 0..(Len(s) - Len(k)) : \A j \in 1..Len(k) : LowerChar(s[i + j]) = LowerChar(k[j])

\* the record's arrival text is an instant of the range the filter names, and
\* the record's material has the filter's material in it
InFilterRange(r) ==
    /\ filters.startDate # <<>>
    /\ filters.endDate # <<>>
    /\ \E t \in {smartParseDate(r.arrivalTime)} :
          /\ t # Null
          /\ SevenOClock(filters.startDate, 0) <= t[1]
          /\ t[1] < SevenOClock(filters.endDate, 1)
    /\ (filters.material = <<>> \/ ContainsIgnoringCase(r.matName, filters.material))

\* C8: a record is in the filtered set if and only if its arrival text
\* parses to an instant t with 07:00 on startDate <= t < 07:00 on the day
\* after endDate and the material filter is empty or contained, whatever the
\* case, in the record's material name; a record whose arrival text does not
\* parse is never included.
C8_FilteredSet ==
    \A kept \in {filteredData} :
        /\ kept = SelectSeq(rawData, InFilterRange)
        /\ \A k \in 1..Len(kept) : smartParseDate(kept[k].arrivalTime) # Null

\* the range is 31 January alone: the arrival at 07:00 on 31 January is in,
\* the arrival at 07:00 on 1 February is out
C8_Witness ==
    /\ filters.startDate = filters.endDate
    /\ filters.endDate = <<"2", "0", "2", "4", "-", "0", "1", "-", "3", "1">>
    /\ Len(rawData) = 2
    /\ rawData[1].arrivalTime = Feb01_0700
    /\ rawData[2].arrivalTime = Jan31_0700
    /\ Len(filteredData) = 1
    /\ filteredData[1].arrivalTime = Jan31_0700

\* C10: for any filtered set, the pareto list has at most 10 entries, the
\* cumulative percentages do not decrease along the list, the last one is
\* exactly 100 whenever top10Total > 0, and all are 0 when top10Total is 0.
C10_ParetoCumulative ==
    LET items == paretoData.items
    IN  /\ Len(items) <= 10
        /\ \A k \in 1..(Len(items) - 1) : items[k].percentage <= items[k + 1].percentage
        /\ (paretoData.top10Total > 0 /\ items # <<>>) => items[Len(items)].percentage = 100
        /\ paretoData.top10Total = 0 => \A k \in 1..Len(items) : items[k].percentage = 0


-----------------------------------------------------------------------------
(* The daily rollups and the range summary: timelineData, App.tsx:394-409,
   and rangeSummary, App.tsx:411-428.  Tonnages are in tenths of a tonne,
   times in thousandths of a minute as in the records. *)

\* the nearest integer to n / d for d > 0, a half going away from zero, as
\* toFixed rounds
RoundHalfAway(n, d) ==
    IF n >= 0 THEN (2 * n + d) \div (2 * d) ELSE 0 - ((d - 2 * n) \div (2 * d))

\* const k = getShiftDateString(d) for each record, Null where the arrival
\* text does not parse (the record is skipped)
ShiftKeys(data) ==
    [k \in 1..Len(data) |->
        IF smartParseDate(data[k].arrivalTime) = Null THEN Null
        ELSE getShiftDateString(smartParseDate(data[k].arrivalTime))]

\* the sum of a field over the records of one shift day among the first k
RECURSIVE SumOfDay(_, _, _, _, _)
SumOfDay(data, keys, day, field, k) ==
    IF k = 0 THEN 0
    ELSE SumOfDay(data, keys, day, field, k - 1)
             + (IF keys[k] = day THEN data[k][field] ELSE 0)

\* a.date.localeCompare(b.date) < 0 for two dates written YYYY-MM-DD
RECURSIVE DateTextBefore(_, _)
DateTextBefore(a, b) ==
    IF a = <<>> \/ b = <<>> THEN a = <<>> /\ b # <<>>
    ELSE IF Head(a) = Head(b) THEN DateTextBefore(Tail(a), Tail(b))
    ELSE IF Head(a) = "-" \/ Head(b) = "-" THEN Head(a) = "-"
    ELSE DigitValue(Head(a)) < DigitValue(Head(b))

\* .sort((a, b) => a.date.localeCompare(b.date)); the dates are distinct
SortByDate(entries) ==
    LET rank(i) == Cardinality({j \in 1..Len(entries) :
                                    DateTextBefore(entries[j].date, entries[i].date)}) + 1
    IN  [p \in 1..Len(entries) |-> entries[CHOOSE i \in 1..Len(entries) : rank(i) = p]]

\* the entry with the day's total time in place of the average
TimelineEntry_AvgIsTotal(data, keys, day) ==
    LET n == Cardinality({k \in 1..Len(data) : keys[k] = day})
        time == SumOfDay(data, keys, day, "totalTime", Len(data))
    IN  [date    |-> day,
         tons    |-> ToFixed1(SumOfDay(data, keys, day, "weight", Len(data))),
         counts  |-> n,
         time    |-> time,
         avgTime |-> MathRound(time, Milli)]

\* one entry of the map, after Object.values(map).map(...), App.tsx:400-407
TimelineEntry(data, keys, day) ==
    LET n == Cardinality({k \in 1..Len(data) : keys[k] = day})
        time == SumOfDay(data, keys, day, "totalTime", Len(data))
    IN  [date    |-> day,
         tons    |-> ToFixed1(SumOfDay(data, keys, day, "weight", Len(data))),
         counts  |-> n,
         time    |-> time,
         avgTime |-> MathRound(time, n * Milli)]

\* timelineData, App.tsx:394-409
timelineDataOf(data) ==
    LET keys == ShiftKeys(data)
        firsts == SelectSeq([k \in 1..Len(data) |-> k],
                            LAMBDA k : keys[k] # Null /\ \A j \in 1..(k - 1) : keys[j] # keys[k])
    IN  SortByDate([i \in 1..Len(firsts) |-> TimelineEntry(data, keys, keys[firsts[i]])])

timelineData == timelineDataOf(filteredData)

RECURSIVE SumField(_, _, _)
SumField(q, field, k) == IF k = 0 THEN 0 ELSE SumField(q, field, k - 1) + q[k][field]

\* the summary with the tonnage averaged over the trucks instead of the days
rangeSummaryOf_AvgPerTruck(timeline) ==
    LET totalTons == SumField(timeline, "tons", Len(timeline))
        totalCounts == SumField(timeline, "counts", Len(timeline))
        totalTime == SumField(timeline, "time", Len(timeline))
        days == IF Len(timeline) = 0 THEN 1 ELSE Len(timeline)
    IN  [totalTons |-> totalTons,
         totalCounts |-> totalCounts,
         totalTime |-> totalTime,
         avgTonsPerDay |-> RoundHalfAway(totalTons, IF totalCounts = 0 THEN 1 ELSE totalCounts),
         avgCountsPerDay |-> RoundHalfAway(totalCounts * 10, days),
         avgTotalWorkTimePerDay |-> MathRound(totalTime, days * Milli),
         avgEff |-> IF totalCounts > 0 THEN MathRound(totalTime, totalCounts * Milli) ELSE 0,
         days |-> days]

\* rangeSummary, App.tsx:411-428; avgCountsPerDay is in tenths
rangeSummaryOf(timeline) ==
    LET totalTons == SumField(timeline, "tons", Len(timeline))
        totalCounts == SumField(timeline, "counts", Len(timeline))
        totalTime == SumField(timeline, "time", Len(timeline))
        days == IF Len(timeline) = 0 THEN 1 ELSE Len(timeline)
    IN  [totalTons |-> totalTons,
         totalCounts |-> totalCounts,
         totalTime |-> totalTime,
         avgTonsPerDay |-> RoundHalfAway(totalTons, days),
         avgCountsPerDay |-> RoundHalfAway(totalCounts * 10, days),
         avgTotalWorkTimePerDay |-> MathRound(totalTime, days * Milli),
         avgEff |-> IF totalCounts > 0 THEN MathRound(totalTime, totalCounts * Milli) ELSE 0,
         days |-> days]

rangeSummary == rangeSummaryOf(timelineData)

\* C14: for any non-empty set of daily rollups, avgTonsPerDay * days differs
\* from totalTons by no more than the one-decimal rounding tolerance, 0.05
\* per day plus 0.05 for the total (here doubled and in tenths of a tonne).
C14_AverageTimesDays ==
    \A sum \in {rangeSummary} :
        sum.totalCounts > 0 =>
            /\ 2 * (sum.avgTonsPerDay * sum.days - sum.totalTons) <= sum.days + 1
            /\ 2 * (sum.totalTons - sum.avgTonsPerDay * sum.days) <= sum.days + 1

\* two days with 1.5 t in all: the average of 0.75 t is shown as 0.8 t, and
\* 0.8 * 2 is not 1.5
C14_Witness ==
    /\ rangeSummary.days = 2
    /\ rangeSummary.totalTons = 15
    /\ rangeSummary.avgTonsPerDay = 8


-----------------------------------------------------------------------------
(* The monitor view: todayMonitor, App.tsx:455-475.  settings.benchmarkTime is
   a number <<v>> in thousandths of a minute, or NaN *)

\* parseInt(str) of the value of a number input: the digits after an optional
\* sign, NaN when there are none
parseInt(str) ==
    LET s == TrimStart(str)
        neg == s # <<>> /\ Head(s) = "-"
        b == IF s # <<>> /\ Head(s) \in {"-", "+"} THEN 2 ELSE 1
        n == DigitRun(s, b)
    IN  IF n = 0 THEN NaN
        ELSE <<(IF neg THEN 0 - 1 ELSE 1) * DigitsValue(SubSeq(s, b, b + n - 1)) * Milli>>

\* let rate = 100; if (item.totalTime > 0) rate = Math.min(100, Math.round(...)),
\* App.tsx:467-470; Math.round and Math.min of NaN are NaN
RateOf(item, benchmarkTime) ==
    IF item.totalTime > 0
    THEN IF benchmarkTime = NaN THEN NaN
         ELSE <<Min2(100, MathRound(benchmarkTime[1] * 100, item.totalTime))>>
    ELSE <<100>>

\* smartParseDate(r.arrivalTime)?.getTime() || 0
ArrivalTimeOr0(r) ==
    IF smartParseDate(r.arrivalTime) = Null THEN 0 ELSE smartParseDate(r.arrivalTime)[1]

\* .sort((a, b) => time(b) - time(a)): descending by arrival, and stable
SortByArrivalDescending(items) ==
    LET key == [i \in 1..Len(items) |-> ArrivalTimeOr0(items[i])]
        Before(j, i) == key[j] > key[i] \/ (key[j] = key[i] /\ j < i)
        rank(i) == Cardinality({j \in 1..Len(items) : Before(j, i)}) + 1
    IN  [p \in 1..Len(items) |-> items[CHOOSE i \in 1..Len(items) : rank(i) = p]]

\* the test of rawData.filter(...), App.tsx:460-463
MonitorKeeps(r, s, e) ==
    LET d == smartParseDate(r.arrivalTime)
    IN  /\ d # Null
        /\ d[1] >= s[1]
        /\ d[1] < e[1]

\* itemsWithRate.reduce((acc, cur) => acc + (cur.rate || 0), 0): NaN counts as 0
RECURSIVE SumRates(_, _)
SumRates(q, k) ==
    IF k = 0 THEN 0
    ELSE SumRates(q, k - 1) + (IF q[k].rate = NaN THEN 0 ELSE q[k].rate[1])

\* todayMonitor, App.tsx:455-475
todayMonitorOf(data, mDate, benchmarkTime) ==
    LET base == smartParseDate(mDate)
    IN  IF base = Null THEN [items |-> <<>>, avgRate |-> 0]
        ELSE LET s == NewDate(getFullYear(base), getMonth(base), getDate(base), 7, 0)
                 e == setDate(s, getDate(s) + 1)
                 items == SortByArrivalDescending(
                              SelectSeq(data, LAMBDA r : MonitorKeeps(r, s, e)))
                 itemsWithRate == [i \in 1..Len(items) |->
                                      [rate |-> RateOf(items[i], benchmarkTime)] @@ items[i]]
             IN  IF Len(items) = 0 THEN [items |-> <<>>, avgRate |-> 0]
                 ELSE [items |-> itemsWithRate,
                       avgRate |-> MathRound(SumRates(itemsWithRate, Len(itemsWithRate)),
                                             Len(items))]

todayMonitor == todayMonitorOf(rawData, monitorDate, settings.benchmarkTime)

Jan31_1200 == <<"2", "0", "2", "4", "-", "0", "1", "-", "3", "1", " ", "1", "2", ":", "0", "0">>

\* data rows of the feed around the shift of 31 January 2024, with durations
\* above and below the benchmark, zero, negative and missing
MonitorRows ==
    { << <<"T", "1">>, Sand, Jan31_0700, <<>>, <<"4", "5">>, <<"1", ",", "2", "0", "0">> >>,
      << <<"T", "2">>, Gravel, Feb01_0659, <<>>, <<"1", "2", "0">>, <<"8", "0", "0">> >>,
      << <<"T", "3">>, Cement, Feb01_0700, <<>>, <<"0">>, <<"5", "0", "0">> >>,
      << <<"T", "4">>, Sand, Jan31_1200, <<>>, <<"-", "5">>, <<"3", "4", "0">> >>,
      << <<"T", "5">>, Gravel, Jan31_0630_DayFirst, <<>>, <<>>, <<"2", "0", "0">> >>,
      << <<"T", "6">>, Cement, <<"s", "o", "o", "n">>, <<>>, <<"1", "0">>, <<"1", "0", "0">> >>
    }

MonitorTables == {<<HeaderRow>> \o rs : rs \in SeqsOf(MonitorRows, 1, MaxRecords)}

\* the values of the monitor's date input (empty when cleared)
MonitorDates == { <<>>,
                  <<"2", "0", "2", "4", "-", "0", "1", "-", "3", "1">>,
                  <<"2", "0", "2", "4", "-", "0", "2", "-", "0", "1">> }

\* the values of the benchmark input (empty when cleared)
BenchmarkTexts == { <<>>, <<"0">>, <<"3", "0">>, <<"9", "0">> }

\* the dashboard after the mount-time fetch has delivered a table
InitMonitor ==
    /\ mounted = TRUE
    /\ allRows \in MonitorTables
    /\ rawData = parsed(allRows)
    /\ dataVersion = 1
    /\ animationTick = 0
    /\ isSettingsOpen = FALSE
    /\ isLoading = FALSE
    /\ isPaused = FALSE
    /\ date = NowView
    /\ shiftDate = getShiftDateString(NowView)
    /\ monitorDate = getShiftDateString(NowView)
    /\ settings \in {x \in SavedSettings : x.refreshRate = 1}
    /\ filters = [startDate |-> formatDateToISO(setDate(NowView, getDate(NowView) - 30)),
                  endDate |-> formatDateToISO(NowView),
                  material |-> <<>>]
    /\ countdown = settings.refreshRate
    /\ inflight = <<>>
    /\ lastOutcome = "ok"
    /\ aiCall = NoCall

\* onChange of the monitor's date input, App.tsx:538
SetMonitorDate(v) ==
    /\ monitorDate' = v
    /\ UNCHANGED <<mounted, rawData, dataVersion, animationTick, isSettingsOpen, isLoading,
                   isPaused, settings, filters, countdown, inflight, allRows,
                   lastOutcome, date, shiftDate, aiCall>>

\* onChange of the benchmark input of the settings dialog, App.tsx:688
SetBenchmarkTime(text) ==
    /\ isSettingsOpen
    /\ settings' = [settings EXCEPT !.benchmarkTime = parseInt(text)]
    /\ UNCHANGED <<mounted, rawData, dataVersion, animationTick, isSettingsOpen, isLoading,
                   isPaused, monitorDate, filters, countdown, inflight, allRows,
                   lastOutcome, date, shiftDate, aiCall>>

\* the button beside the benchmark input, App.tsx:501-503 and 685
syncBenchmarkToAverage ==
    /\ isSettingsOpen
    /\ settings' = [settings EXCEPT !.benchmarkTime = <<rangeSummary.avgEff * Milli>>]
    /\ UNCHANGED <<mounted, rawData, dataVersion, animationTick, isSettingsOpen, isLoading,
                   isPaused, monitorDate, filters, countdown, inflight, allRows,
                   lastOutcome, date, shiftDate, aiCall>>

NextMonitor ==
    \/ ToggleSettingsOpen
    \/ \E v \in MonitorDates : SetMonitorDate(v)
    \/ \E text \in BenchmarkTexts : SetBenchmarkTime(text)
    \/ syncBenchmarkToAverage

SpecMonitor == InitMonitor /\ [][NextMonitor]_vars

\* C11: for every event in the monitor view and every benchmark setting,
\* onTimeRate is a number of at most 100, and it is exactly 100 when the
\* event's duration is 0.
C11_OnTimeRateCapped ==
    \A k \in 1..Len(todayMonitor.items) :
        /\ todayMonitor.items[k].rate # NaN
        /\ todayMonitor.items[k].rate[1] <= 100
        /\ todayMonitor.items[k].totalTime = 0 => todayMonitor.items[k].rate = <<100>>


\* the text of a cell is a decimal number: an optional sign, digits that may
\* be grouped by commas, and an optional fraction
IsNumberText(str) ==
    LET s == RemoveAll(trim(str), {","})
        b == IF s # <<>> /\ Head(s) \in {"-", "+"} THEN 2 ELSE 1
        nInt == DigitRun(s, b)
        hasDot == b + nInt <= Len(s) /\ s[b + nInt] = "."
        nFrac == IF hasDot THEN DigitRun(s, b + nInt + 1) ELSE 0
    IN  /\ nInt + nFrac > 0
        /\ b + nInt + (IF hasDot THEN 1 + nFrac ELSE 0) = Len(s) + 1

\* the cell of data row c under the header whose name has one of the keywords
\* in it is absent, empty or no number
NoNumberIn(headerRow, c, keywords) ==
    LET i == findColIdx([j \in 1..Len(headerRow) |-> trim(headerRow[j])], keywords)
    IN  i < 0 \/ i >= Len(c) \/ ~IsNumberText(c[i + 1])

\* C12: every built record has a duration >= 0 and a weight >= 0 whatever the
\* text of its duration and weight cells, and each is 0 when the cell is
\* absent, empty or not numeric.  (The builder makes one record per data
\* row, so record k is built from data row k.)
C12_NonNegativeNumbers ==
    (lastOutcome = "ok" /\ Len(rawData) = Len(allRows) - 1) =>
        \A k \in 1..Len(rawData) :
            /\ rawData[k].totalTime >= 0
            /\ rawData[k].weight >= 0
            /\ NoNumberIn(allRows[1], allRows[k + 1], KwTotalTime) => rawData[k].totalTime = 0
            /\ NoNumberIn(allRows[1], allRows[k + 1], KwWeight) => rawData[k].weight = 0


-----------------------------------------------------------------------------
(* The CSV decoder on its own: robustParseCSV on the text of a table *)

\* cells: empty, plain, with a comma and a quote, with a line break
CsvCells == { <<>>, <<"a", "b">>, <<",", "\"">>, <<"\r", "\n">> }

LineTerminators == { <<"\n">>, <<"\r", "\n">>, <<"\r">> }

\* the cells cut into rows: a new row starts after cell k when breaks[k]
RECURSIVE RowsOfCells(_, _, _)
RowsOfCells(cells, breaks, k) ==
    IF k = 0 THEN << <<>> >>
    ELSE LET before == RowsOfCells(cells, breaks, k - 1)
             n == Len(before)
         IN  IF k > 1 /\ breaks[k - 1]
             THEN Append(before, <<cells[k]>>)
             ELSE [before EXCEPT ![n] = Append(before[n], cells[k])]

\* every table of at most MaxCsvCells cells, each row holding a cell or more
CsvTables ==
    {<<>>} \cup
    UNION {{RowsOfCells(cells, breaks, Len(cells)) : breaks \in [1..(Len(cells) - 1) -> BOOLEAN]} :
              cells \in SeqsOf(CsvCells, 1, MaxCsvCells)}

\* the mount-time fetch is waiting; the response on its way is the text of a
\* table of the feed, written with one of the line terminators
InitCsv ==
    /\ mounted = TRUE
    /\ rawData = <<>>
    /\ dataVersion = 0
    /\ animationTick = 0
    /\ isSettingsOpen = FALSE
    /\ isLoading = TRUE
    /\ isPaused = FALSE
    /\ date = Now0
    /\ shiftDate = getShiftDateString(Now0)
    /\ monitorDate = getShiftDateString(Now0)
    /\ settings \in {x \in SavedSettings : x.refreshRate = 1}
    /\ filters = [startDate |-> formatDateToISO(setDate(Now0, getDate(Now0) - 30)),
                  endDate |-> formatDateToISO(Now0),
                  material |-> <<>>]
    /\ countdown = settings.refreshRate
    /\ \E table \in CsvTables, eol \in LineTerminators :
           inflight = <<[by |-> "mount", rows |-> table, eol |-> eol]>>
    /\ allRows = <<>>
    /\ lastOutcome = "none"
    /\ aiCall = NoCall

\* const text = await res.text(); const allRows = robustParseCSV(text)
CallDecode ==
    /\ lastOutcome = "none"
    /\ allRows' = robustParseCSV(EncodeCSVWith(inflight[1].rows, inflight[1].eol))
    /\ lastOutcome' = "decoded"
    /\ UNCHANGED <<mounted, rawData, dataVersion, animationTick, isSettingsOpen, isLoading,
                   isPaused, monitorDate, settings, filters, countdown, inflight,
                   date, shiftDate, aiCall>>

NextCsv == CallDecode

SpecCsv == InitCsv /\ [][NextCsv]_vars

\* C13: decoding the CSV encoding of any sequence of rows of cells (cells
\* quoted where needed, inner quotes doubled, rows ended by a line terminator)
\* returns the same rows and the same cell values, including cells that
\* contain commas, quotes, newlines or are empty.
C13_RoundTrip ==
    lastOutcome = "decoded" =>
        /\ Len(allRows) = Len(inflight[1].rows)
        /\ \A r \in 1..Len(allRows) :
              /\ Len(allRows[r]) = Len(inflight[1].rows[r])
              /\ \A c \in 1..Len(allRows[r]) : allRows[r][c] = inflight[1].rows[r][c]

\* a row of one empty cell between a row with a comma and a quote and a row
\* with a line break, written with CR LF
C13_Witness ==
    /\ lastOutcome = "decoded"
    /\ inflight[1].eol = <<"\r", "\n">>
    /\ allRows = << << <<",", "\"">>, <<"a", "b">> >>, << <<>> >>, << <<"\r", "\n">> >> >>


-----------------------------------------------------------------------------
(* End to end: the mount-time fetch receives the feed of three data rows, and
   the operator sets the filter *)

\* the values of the date inputs: cleared, 9 January and 10 January 2024
RangeDates == { <<>>,
                <<"2", "0", "2", "4", "-", "0", "1", "-", "0", "9">>,
                <<"2", "0", "2", "4", "-", "0", "1", "-", "1", "0">> }

NextThreeRows ==
    \/ \E text \in ThreeRowTexts : FetchDone(1, text)
    \/ \E v \in RangeDates : SetStartDate(v)
    \/ \E v \in RangeDates : SetEndDate(v)
    \/ \E v \in FilterMaterials : SetMaterial(v)

SpecThreeRows == InitBuild /\ [][NextThreeRows]_vars

\* C15: end to end, three data rows (weight "1,200", duration "45", arrival
\* "2024-01-10 06:30"; weight "800", duration "30", arrival "2024-01-10
\* 08:00"; one with no material name), filtered with the range 2024-01-09 to
\* 2024-01-10, give exactly 2 daily rollups, 2024-01-09 with 1.2 t and
\* 2024-01-10 with 0.8 t, and a totalCounts of 2.
C15_EndToEnd ==
    ( /\ lastOutcome = "ok"
      /\ filters.startDate = <<"2", "0", "2", "4", "-", "0", "1", "-", "0", "9">>
      /\ filters.endDate = <<"2", "0", "2", "4", "-", "0", "1", "-", "1", "0">>
      /\ filters.material = <<>> ) =>
        /\ Len(timelineData) = 2
        /\ timelineData[1].date = <<"2", "0", "2", "4", "-", "0", "1", "-", "0", "9">>
        /\ timelineData[1].tons = 12
        /\ timelineData[2].date = <<"2", "0", "2", "4", "-", "0", "1", "-", "1", "0">>
        /\ timelineData[2].tons = 8
        /\ rangeSummary.totalCounts = 2


-----------------------------------------------------------------------------
(* The AI summary: analyzeLogisticsData, part_000:3-40.  aiCall.pc is "idle",
   "pending" (suspended at the await of generateContent), "returned" (the
   promise is fulfilled with aiCall.value) or "rejected" (an exception left
   the function); aiCall.failed tells whether a step of the call has failed. *)

\* the text of the catch block's return
FallbackMessage ==
    << "F", "a", "i", "l", "e", "d", " ", "t", "o", " ", "g", "e", "n",
       "e", "r", "a", "t", "e", " ", "A", "I", " ", "i", "n", "s", "i",
       "g", "h", "t", "s", ".", " ", "P", "l", "e", "a", "s", "e", " ",
       "c", "h", "e", "c", "k", " ", "y", "o", "u", "r", " ", "c", "o",
       "n", "n", "e", "c", "t", "i", "o", "n", " ", "o", "r", " ", "A",
       "P", "I", " ", "k", "e", "y", "." >>

\* the languages of the dashboard, and texts the model may answer with
Languages == { <<"z", "h">>, <<"e", "n">> }

ReplyTexts == { <<"-", " ", "o", "k">>, <<>> }

\* data.slice(0, 50)
SliceFifty(data) == SubSeq(data, 1, Min2(Len(data), 50))

\* the call up to its await: the client is created (line 5), the records are
\* serialized (line 8) and the prompt is built, all before the try block;
\* clientThrows and stringifyThrows tell whether the constructor and
\* data.slice / JSON.stringify throw
AnalyzeStart(data, language, clientThrows, stringifyThrows) ==
    /\ aiCall.pc # "pending"
    /\ aiCall' = IF clientThrows \/ stringifyThrows
                 THEN [pc |-> "rejected", prompt |-> <<>>, value |-> <<>>, failed |-> TRUE]
                 ELSE [pc |-> "pending",
                       prompt |-> <<SliceFifty(data), language>>,
                       value |-> <<>>, failed |-> FALSE]
    /\ UNCHANGED <<mounted, rawData, dataVersion, animationTick, isSettingsOpen, isLoading,
                   isPaused, monitorDate, settings, filters, countdown, inflight, allRows,
                   lastOutcome, date, shiftDate>>

\* generateContent resolves: return response.text
AnalyzeResolves(text) ==
    /\ aiCall.pc = "pending"
    /\ aiCall' = [aiCall EXCEPT !.pc = "returned", !.value = text]
    /\ UNCHANGED <<mounted, rawData, dataVersion, animationTick, isSettingsOpen, isLoading,
                   isPaused, monitorDate, settings, filters, countdown, inflight, allRows,
                   lastOutcome, date, shiftDate>>

\* generateContent rejects: the catch block logs and returns the fixed message
AnalyzeRejects ==
    /\ aiCall.pc = "pending"
    /\ aiCall' = [aiCall EXCEPT !.pc = "returned", !.value = FallbackMessage, !.failed = TRUE]
    /\ UNCHANGED <<mounted, rawData, dataVersion, animationTick, isSettingsOpen, isLoading,
                   isPaused, monitorDate, settings, filters, countdown, inflight, allRows,
                   lastOutcome, date, shiftDate>>

NextAnalyze ==
    \/ \E language \in Languages, clientThrows \in BOOLEAN, stringifyThrows \in BOOLEAN :
           AnalyzeStart(rawData, language, clientThrows, stringifyThrows)
    \/ \E text \in ReplyTexts : AnalyzeResolves(text)
    \/ AnalyzeRejects

\* the summary is asked for on a dashboard that holds records
SpecAnalyze == InitView /\ [][NextAnalyze]_vars

\* C16: the AI summary call never propagates a failure to its caller:
\* whenever any step of the call fails (creating the client, serializing the
\* records, or the remote request), it returns the fixed fallback message.
C16_FailureGivesFallback ==
    /\ aiCall.pc # "rejected"
    /\ aiCall.failed => (aiCall.pc = "returned" /\ aiCall.value = FallbackMessage)


\* the shift day of a record by the calendar: the day its arrival lies in,
\* or the day before when the arrival is earlier than 07:00
ShiftDayOf(r) ==
    LET t == smartParseDate(r.arrivalTime)
    IN  IsoOfCivil(IF getHours(t) < 7 THEN DayBefore(CivilOf(t)) ELSE CivilOf(t))

\* the positions in the filtered set of the records of a shift day
RecordsOfDay(day) == {k \in 1..Len(filteredData) : ShiftDayOf(filteredData[k]) = day}

RECURSIVE SumDurations(_)
SumDurations(ks) ==
    IF ks = {} THEN 0
    ELSE LET k == CHOOSE x \in ks : TRUE
         IN  filteredData[k].totalTime + SumDurations(ks \ {k})

\* C17: the daily rollups contain exactly one entry per distinct shift day of
\* the filtered records, in ascending date order; each entry's count is the
\* number of filtered records of that shift day (so the counts sum to the
\* size of the filtered set), its total time is their summed duration, and
\* the average is round(total time / count).
C17_DailyRollups ==
    \A tl \in {timelineData} :
        /\ {tl[i].date : i \in 1..Len(tl)} =
               {ShiftDayOf(filteredData[k]) : k \in 1..Len(filteredData)}
        /\ \A i \in 1..(Len(tl) - 1) : SevenOClock(tl[i].date, 0) < SevenOClock(tl[i + 1].date, 0)
        /\ \A i \in 1..Len(tl) :
              /\ tl[i].counts = Cardinality(RecordsOfDay(tl[i].date))
              /\ tl[i].time = SumDurations(RecordsOfDay(tl[i].date))
              /\ 2 * tl[i].avgTime * tl[i].counts * Milli <= 2 * tl[i].time + tl[i].counts * Milli
              /\ 2 * tl[i].avgTime * tl[i].counts * Milli > 2 * tl[i].time - tl[i].counts * Milli
        /\ SumField(tl, "counts", Len(tl)) = Len(filteredData)

\* the arrivals at 07:00 on 31 January and at 06:59 on 1 February are one
\* shift day: one rollup of two events, 90 minutes in all, 45 on average
C17_Witness ==
    /\ Len(filteredData) = 2
    /\ Len(timelineData) = 1
    /\ timelineData[1].date = <<"2", "0", "2", "4", "-", "0", "1", "-", "3", "1">>
    /\ timelineData[1].counts = 2
    /\ timelineData[1].time = 90 * Milli
    /\ timelineData[1].avgTime = 45


\* the record's arrival text is an instant of the shift of monitorDate
InMonitorShift(r) ==
    /\ monitorDate # <<>>
    /\ \E t \in {smartParseDate(r.arrivalTime)} :
          /\ t # Null
          /\ SevenOClock(monitorDate, 0) <= t[1]
          /\ t[1] < SevenOClock(monitorDate, 1)

\* an item of the monitor view without its rate: the record it was made from
RecordOfItem(item) == [f \in DOMAIN item \ {"rate"} |-> item[f]]

\* C18: the monitor view contains exactly the records of the whole record set
\* (regardless of the date-range and material filter) whose arrival instant
\* lies in [07:00 on monitorDate, 07:00 the next day), ordered by arrival
\* instant descending; its average rate is the rounded unweighted mean of
\* the per-event onTimeRate values, and 0 when there are no such records.
C18_MonitorView ==
    \A view \in {todayMonitor} :
      \A sel \in {SelectSeq(rawData, InMonitorShift)} :
        /\ Len(view.items) = Len(sel)
        /\ \A k \in 1..Len(sel) :
              Cardinality({i \in 1..Len(view.items) : RecordOfItem(view.items[i]) = sel[k]})
                  = Cardinality({j \in 1..Len(sel) : sel[j] = sel[k]})
        /\ \A i \in 1..(Len(view.items) - 1) :
              smartParseDate(view.items[i].arrivalTime)[1]
                  >= smartParseDate(view.items[i + 1].arrivalTime)[1]
        /\ Len(sel) = 0 => view.avgRate = 0
        /\ Len(sel) > 0 =>
              /\ \A i \in 1..Len(view.items) : view.items[i].rate # NaN
              /\ 2 * view.avgRate * Len(sel)
                     <= 2 * SumRates(view.items, Len(view.items)) + Len(sel)
              /\ 2 * view.avgRate * Len(sel)
                     > 2 * SumRates(view.items, Len(view.items)) - Len(sel)


\* C19: whenever a fetch is in flight the loading flag is true, so the
\* countdown timer is held paused for the whole duration of every fetch, also
\* when fetches overlap and one of them completes before another.
C19_LoadingWhileInFlight ==
    Len(inflight) > 0 => (isLoading /\ TimerPaused)

\* the mount-time fetch, which is started before every other fetch, stores
\* its records in this step
MountFetchStores ==
    /\ inflight # <<>>
    /\ inflight[1].by = "mount"
    /\ inflight' = Tail(inflight)
    /\ lastOutcome' = "ok"
    /\ dataVersion' = dataVersion + 1

\* C20: when two fetches overlap, the record set held after both have
\* completed is the one built from the fetch that was started last: the
\* response of an earlier-started fetch never overwrites the data of a
\* later-started one.  (While the mount-time fetch is in flight, a fetch that
\* has completed was started later; lastOutcome = "ok" says that the last
\* one to complete stored its records.)
C20_LastStartedWins ==
    [][(MountFetchStores /\ lastOutcome = "ok") => rawData' = rawData]_vars


\* the day written YYYY-MM-DD is one of the days startDate..endDate
DayInFilterRange(day) ==
    /\ filters.startDate # <<>>
    /\ filters.endDate # <<>>
    /\ SevenOClock(filters.startDate, 0) <= SevenOClock(day, 0)
    /\ SevenOClock(day, 0) <= SevenOClock(filters.endDate, 0)

\* C21: the date filter and the shift-day grouping agree: a record with a
\* parseable arrival passes the date range filter exactly when the shift day
\* of its arrival lies between startDate and endDate inclusive, so every
\* daily rollup's date is within [startDate, endDate].
C21_FilterAgreesWithShiftDay ==
    \A kept \in {filteredDataOf(rawData, [filters EXCEPT !.material = <<>>])} :
        /\ \A k \in 1..Len(rawData) :
              smartParseDate(rawData[k].arrivalTime) # Null =>
                  ((\E j \in 1..Len(kept) : kept[j] = rawData[k])
                      <=> DayInFilterRange(ShiftDayOf(rawData[k])))
        /\ \A tl \in {timelineData} :
              \A i \in 1..Len(tl) : DayInFilterRange(tl[i].date)

\* the range is 31 January alone: the arrival at 06:30 on 31 January belongs
\* to the shift day before and is out, the arrival at 06:59 on 1 February
\* belongs to 31 January and is in, and the one rollup is that of 31 January
C21_Witness ==
    /\ filters.startDate = <<"2", "0", "2", "4", "-", "0", "1", "-", "3", "1">>
    /\ filters.endDate = filters.startDate
    /\ filters.material = <<>>
    /\ Len(rawData) = 2
    /\ rawData[1].arrivalTime = Jan31_0630_DayFirst
    /\ rawData[2].arrivalTime = Feb01_0659
    /\ Len(filteredData) = 1
    /\ filteredData[1].arrivalTime = Feb01_0659
    /\ Len(timelineData) = 1
    /\ timelineData[1].date = filters.endDate


\* C22: for any filtered set of records with non-negative weights, the pareto
\* top10Total never exceeds RangeSummary.totalTons, so the displayed top-10
\* share of the range total is at most 100%.
C22_TopTenWithinTotal ==
    \A kept \in {filteredData} :
        (\A k \in 1..Len(kept) : kept[k].weight >= 0) =>
            paretoDataOf(kept).top10Total <= rangeSummaryOf(timelineDataOf(kept)).totalTons


=============================================================================
